---- MODULE Spec2Model ----
(***************************************************************************)
(* Model of the reward valuation and ranking engine, src/src/lib/ranker.js *)
(* (valueFor, rankCards and their helpers).                                *)
(*                                                                         *)
(* Representation.                                                         *)
(*  - An optional field (absent, undefined, null or a non-finite number in *)
(*    the JavaScript record) is the empty tuple None; a present value v is *)
(*    the one-element tuple Some(v).                                       *)
(*  - Dollar values (baseValue, bonusValue, dollars, boostVal, baseVal)    *)
(*    are exact rationals held as integers in units of 10^-6 dollar:       *)
(*    one cent is 10000 units.  Percent rates and multipliers are whole    *)
(*    numbers, cents-per-point is held in hundredths of a cent (1.25 is    *)
(*    125).  The rounding of IEEE doubles is not modelled.                 *)
(*  - An ISO-8601 UTC instant string is the record [day, sec, frac]:       *)
(*    the calendar day number, the second of the day, and frac = -1 for    *)
(*    the form "...:ssZ" or the milliseconds 0..999 of the form            *)
(*    "...:ss.mmmZ".  The code compares the strings with < and >, i.e.     *)
(*    character by character, and '.' sorts before 'Z'.                    *)
(*  - A note is the record [text, n, money]: the fixed words of the note,  *)
(*    the number printed in it (0 where it prints none) and the money      *)
(*    amount printed in it, <<dollars, cents>> as toFixed(2) prints it     *)
(*    (None where it prints none).                                         *)
(***************************************************************************)
EXTENDS Integers, Sequences, FiniteSets, TLC

VARIABLES
  cards,         \* rankCards argument: the wallet, a sequence of card ids
  params,        \* rankCards argument: the valuation parameters
  offersByCard,  \* rankCards argument: card id -> sequence of offer ids
  results,       \* the local array `results` of rankCards
  pc,            \* "loop" | "sort" | "done": position inside rankCards
  splitCalls,    \* log of the applyCapSplitPercent calls made so far
  ownedIds,        \* CardPickerMVP: ids of the wallet cards (persisted)
  showOnboarding,  \* CardPickerMVP: is the setup wizard displayed
  step,            \* OnboardingWizard: the step of the wizard, 1..totalSteps
  selectedCards    \* OnboardingWizard: ids of the cards picked in the wizard

appVars == <<ownedIds, showOnboarding, step, selectedCards>>
vars == <<cards, params, offersByCard, results, pc, splitCalls,
          ownedIds, showOnboarding, step, selectedCards>>

\* ---------------------------------------------------------------- bounds
MaxWallet == 3
MaxOffers == 2

\* ------------------------------------------------------- optional values
None == <<>>
Some(v) == <<v>>

\* Number.isFinite(x)
IsFinite(x) == x # None

\* Faulty variant of NumberOr0: a missing number counts as 1.
NumberOr0_orOne(x) == IF x = None THEN 1 ELSE x[1]

\* Number(x) || 0
NumberOr0(x) == IF x = None THEN 0 ELSE x[1]

\* JavaScript truthiness of an optional number: absent and 0 are falsy
Truthy(x) == x # None /\ x[1] # 0

Min(a, b) == IF a <= b THEN a ELSE b
Max(a, b) == IF a >= b THEN a ELSE b

\* ------------------------------------------------------------------ utils
\* money(n) = `$${n.toFixed(2)}`: n (here in 10^-6 dollar, n >= 0) rounded to
\* the nearest cent and printed as whole dollars and two digits of cents
money(n) ==
  LET c == (n + 5000) \div 10000
  IN  <<c \div 100, c % 100>>

Note(text, n, amt) == [text |-> text, n |-> n, money |-> amt]

toISOStartOfDay(day) == [day |-> day, sec |-> 0, frac |-> -1]
toISOEndOfDay(day) == [day |-> day, sec |-> 86399, frac |-> -1]

\* a < b for the strings the instants stand for
IsoLess(a, b) ==
  \/ a.day < b.day
  \/ a.day = b.day /\ a.sec < b.sec
  \/ a.day = b.day /\ a.sec = b.sec /\ a.frac >= 0 /\ (b.frac = -1 \/ a.frac < b.frac)

isWithin(nowISO, startISO, endISO) ==
  IF startISO # None /\ IsoLess(nowISO, startISO[1]) THEN FALSE
  ELSE IF endISO # None /\ IsoLess(endISO[1], nowISO) THEN FALSE
  ELSE TRUE

\* ------------------------------------------------------ reference data
\* The card and offer catalogs are external reference data (cards.json and
\* offers.demo.json are not part of the engine); the records below are the
\* bounded set of inputs the engine is run on, shaped as the code reads them.
CategoryIds == {"grocery", "dining"}

\* start/end are calendar dates (day numbers)
RotatingRules ==
  [ q1   |-> [start |-> Some(1), end |-> Some(3), category_ids |-> {"grocery"},
              rate |-> Some(5), after_rate |-> Some(1), cap_cents |-> Some(150000),
              activation_required |-> TRUE],
    open |-> [start |-> None, end |-> None, category_ids |-> {"grocery", "dining"},
              rate |-> Some(3), after_rate |-> None, cap_cents |-> Some(50000),
              activation_required |-> FALSE],
    bare |-> [start |-> None, end |-> Some(3), category_ids |-> {"dining"},
              rate |-> Some(4), after_rate |-> None, cap_cents |-> None,
              activation_required |-> FALSE],
    norate |-> [start |-> None, end |-> None, category_ids |-> {"grocery"},
                rate |-> None, after_rate |-> None, cap_cents |-> Some(50000),
                activation_required |-> FALSE] ]

NoCategories == [c \in CategoryIds |-> None]

\* rotating_rules is Some(sequence) when the field is an array, None otherwise
CardCatalog ==
  [ discover_it |->
      [id |-> "discover_it", program |-> "cashback", type |-> "cashback",
       base |-> Some(1), cpp_default |-> None, categories |-> NoCategories,
       rotating_rules |-> Some(<<RotatingRules.q1, RotatingRules.open>>)],
    cash3 |->
      [id |-> "cash3", program |-> "cashback", type |-> "cashback",
       base |-> Some(1), cpp_default |-> None,
       categories |-> [NoCategories EXCEPT !["grocery"] = Some(3)],
       rotating_rules |-> None],
    cash5 |->
      [id |-> "cash5", program |-> "cashback", type |-> "cashback",
       base |-> Some(1), cpp_default |-> None,
       categories |-> [NoCategories EXCEPT !["grocery"] = Some(5)],
       rotating_rules |-> Some(<<>>)],
    ur_card |->
      [id |-> "ur_card", program |-> "UR", type |-> "points",
       base |-> Some(1), cpp_default |-> None,
       categories |-> [NoCategories EXCEPT !["dining"] = Some(3)],
       rotating_rules |-> None],
    miles_card |->
      [id |-> "miles_card", program |-> "Cap1", type |-> "miles",
       base |-> Some(2), cpp_default |-> None, categories |-> NoCategories,
       rotating_rules |-> Some(<<RotatingRules.open>>)],
    capless |->
      [id |-> "capless", program |-> "cashback", type |-> "cashback",
       base |-> Some(1), cpp_default |-> None, categories |-> NoCategories,
       rotating_rules |-> Some(<<RotatingRules.bare, RotatingRules.norate>>)],
    store0 |->
      [id |-> "store0", program |-> "cashback", type |-> "cashback",
       base |-> Some(0), cpp_default |-> None,
       categories |-> [NoCategories EXCEPT !["dining"] = Some(3)],
       rotating_rules |-> None],
    nobase |->
      [id |-> "nobase", program |-> "XYZ", type |-> "points",
       base |-> None, cpp_default |-> None,
       categories |-> [NoCategories EXCEPT !["grocery"] = Some(0)],
       rotating_rules |-> None],
    custom |->
      [id |-> "custom", program |-> "UR", type |-> "points",
       base |-> Some(1), cpp_default |-> Some(150), categories |-> NoCategories,
       rotating_rules |-> None] ]

CardIds == DOMAIN CardCatalog

NoValue ==
  [fixed_amount |-> None, percent |-> None, points_multiplier |-> None,
   max_back_cents |-> None, max_amount_cents |-> None]

ScopeAll == [kind |-> "all", ids |-> {}]
ScopeList(ids) == [kind |-> "list", ids |-> ids]

OfferCatalog ==
  [ o_fixed |->
      [id |-> "o_fixed", offer_type |-> "statement_credit",
       value |-> [NoValue EXCEPT !.fixed_amount = Some(500)],
       min_spend_cents |-> Some(2000), categories |-> {}, card_scope |-> ScopeAll,
       start_at |-> None, end_at |-> None, enrollment_required |-> FALSE],
    o_pct |->
      [id |-> "o_pct", offer_type |-> "statement_credit",
       value |-> [NoValue EXCEPT !.percent = Some(10), !.max_back_cents = Some(2000)],
       min_spend_cents |-> Some(2000), categories |-> {}, card_scope |-> ScopeAll,
       start_at |-> Some(toISOStartOfDay(1)), end_at |-> None,
       enrollment_required |-> TRUE],
    o_back |->
      [id |-> "o_back", offer_type |-> "percent_back",
       value |-> [NoValue EXCEPT !.percent = Some(5), !.max_amount_cents = Some(1000)],
       min_spend_cents |-> None, categories |-> {"grocery"}, card_scope |-> ScopeAll,
       start_at |-> None, end_at |-> None, enrollment_required |-> TRUE],
    o_mult |->
      [id |-> "o_mult", offer_type |-> "points_multiplier",
       value |-> [NoValue EXCEPT !.points_multiplier = Some(2)],
       min_spend_cents |-> None, categories |-> {},
       card_scope |-> ScopeList({"ur_card", "discover_it"}),
       start_at |-> None, end_at |-> None, enrollment_required |-> FALSE],
    o_portal |->
      [id |-> "o_portal", offer_type |-> "portal_deal",
       value |-> [NoValue EXCEPT !.percent = Some(10)],
       min_spend_cents |-> None, categories |-> {}, card_scope |-> ScopeAll,
       start_at |-> None, end_at |-> None, enrollment_required |-> FALSE],
    o_old |->
      [id |-> "o_old", offer_type |-> "percent_back",
       value |-> [NoValue EXCEPT !.percent = Some(10)],
       min_spend_cents |-> None, categories |-> {}, card_scope |-> ScopeAll,
       start_at |-> None, end_at |-> Some(toISOEndOfDay(3)),
       enrollment_required |-> FALSE],
    o_soon |->
      [id |-> "o_soon", offer_type |-> "percent_back",
       value |-> [NoValue EXCEPT !.percent = Some(5)],
       min_spend_cents |-> None, categories |-> {}, card_scope |-> ScopeAll,
       start_at |-> Some(toISOStartOfDay(3)), end_at |-> None,
       enrollment_required |-> TRUE],
    o_cap0 |->
      [id |-> "o_cap0", offer_type |-> "percent_back",
       value |-> [NoValue EXCEPT !.percent = Some(5), !.max_back_cents = Some(0),
                                 !.max_amount_cents = Some(1000)],
       min_spend_cents |-> None, categories |-> {}, card_scope |-> ScopeAll,
       start_at |-> None, end_at |-> None, enrollment_required |-> FALSE],
    o_two |->
      [id |-> "o_two", offer_type |-> "percent_back",
       value |-> [NoValue EXCEPT !.percent = Some(10), !.max_back_cents = Some(500),
                                 !.max_amount_cents = Some(1000)],
       min_spend_cents |-> None, categories |-> {}, card_scope |-> ScopeAll,
       start_at |-> None, end_at |-> None, enrollment_required |-> FALSE],
    o_both |->
      [id |-> "o_both", offer_type |-> "statement_credit",
       value |-> [NoValue EXCEPT !.fixed_amount = Some(300), !.percent = Some(10)],
       min_spend_cents |-> None, categories |-> {}, card_scope |-> ScopeAll,
       start_at |-> None, end_at |-> None, enrollment_required |-> FALSE],
    o_rebate |->
      [id |-> "o_rebate", offer_type |-> "rebate",
       value |-> [NoValue EXCEPT !.percent = Some(10)],
       min_spend_cents |-> None, categories |-> {}, card_scope |-> ScopeAll,
       start_at |-> None, end_at |-> None, enrollment_required |-> TRUE] ]

OfferIds == DOMAIN OfferCatalog

\* ------------------------------------------------------------ the engine
\* cents per point, in hundredths of a cent
CPP_DEFAULTS == [UR |-> 125, MR |-> 100, Cap1 |-> 100, TYP |-> 100]

\* Faulty variant of UserRotatingOf: a card without an entry of its own is
\* given the entry of another card.
UserRotatingOf_anyEntry(userRotating, id) ==
  IF id \in DOMAIN userRotating THEN userRotating[id]
  ELSE IF DOMAIN userRotating # {}
       THEN userRotating[CHOOSE k \in DOMAIN userRotating : TRUE]
       ELSE [activated |-> FALSE, remainingCapCents |-> None]

\* userRotating[card.id] || {}
UserRotatingOf(userRotating, id) ==
  IF id \in DOMAIN userRotating THEN userRotating[id]
  ELSE [activated |-> FALSE, remainingCapCents |-> None]

\* Faulty variant of ResolveWindow: the activation flag is not consulted.
ResolveWindow_alwaysActive(r, u) ==
  LET capCents == IF IsFinite(r.cap_cents) THEN Max(0, r.cap_cents[1]) ELSE 0
      remainingCapCents ==
        Max(0, IF IsFinite(u.remainingCapCents) THEN u.remainingCapCents[1] ELSE capCents)
  IN  [active |-> TRUE,
       reason |-> None,
       boostRatePercent |-> NumberOr0(r.rate),
       afterRatePercent |-> r.after_rate,
       remainingCapCents |-> remainingCapCents]

\* Faulty variant of ResolveWindow: the remaining cap is not clamped at 0.
ResolveWindow_noClamp(r, u) ==
  LET needsActivation == r.activation_required
      activated == IF needsActivation THEN u.activated ELSE TRUE
      capCents == IF IsFinite(r.cap_cents) THEN r.cap_cents[1] ELSE 0
      remainingCapCents ==
        IF IsFinite(u.remainingCapCents) THEN u.remainingCapCents[1] ELSE capCents
  IN  [active |-> activated,
       reason |-> IF activated THEN None ELSE Some("Activation required"),
       boostRatePercent |-> NumberOr0(r.rate),
       afterRatePercent |-> r.after_rate,
       remainingCapCents |-> remainingCapCents]

\* The record activeRotatingWindow returns for the matched rule r
ResolveWindow(r, u) ==
  LET needsActivation == r.activation_required
      activated == IF needsActivation THEN u.activated ELSE TRUE
      capCents == IF IsFinite(r.cap_cents) THEN Max(0, r.cap_cents[1]) ELSE 0
      remainingCapCents ==
        Max(0, IF IsFinite(u.remainingCapCents) THEN u.remainingCapCents[1] ELSE capCents)
  IN  [active |-> activated,
       reason |-> IF activated THEN None ELSE Some("Activation required"),
       boostRatePercent |-> NumberOr0(r.rate),
       afterRatePercent |-> r.after_rate,
       remainingCapCents |-> remainingCapCents]

\* does the loop body of activeRotatingWindow reach its return for rule r
RuleMatches(r, categoryId, nowISO) ==
  LET start == IF r.start # None THEN Some(toISOStartOfDay(r.start[1])) ELSE None
      end == IF r.end # None THEN Some(toISOEndOfDay(r.end[1])) ELSE None
  IN  isWithin(nowISO, start, end) /\ categoryId \in r.category_ids

\* Faulty variant of FirstMatch: the scan goes on and the last matching rule
\* is the one returned.
FirstMatch_lastMatch(rules, i, categoryId, nowISO) ==
  LET M == {k \in i..Len(rules) : RuleMatches(rules[k], categoryId, nowISO)}
  IN  IF M = {} THEN None
      ELSE Some(rules[CHOOSE k \in M : \A j \in M : j <= k])

RECURSIVE FirstMatch(_, _, _, _)
\* for (const r of rules): the first rule that matches, from index i on
FirstMatch(rules, i, categoryId, nowISO) ==
  IF i > Len(rules) THEN None
  ELSE IF RuleMatches(rules[i], categoryId, nowISO) THEN Some(rules[i])
  ELSE FirstMatch(rules, i + 1, categoryId, nowISO)

\* null is None, a window descriptor w is Some(w)
activeRotatingWindow(card, categoryId, nowISO, userRotating) ==
  IF card.rotating_rules = None \/ card.rotating_rules = Some(<<>>) THEN None
  ELSE LET m == FirstMatch(card.rotating_rules[1], 1, categoryId, nowISO)
       IN  IF m = None THEN None
           ELSE Some(ResolveWindow(m[1], UserRotatingOf(userRotating, card.id)))

\* Faulty variant of applyCapSplitPercent: the remaining cap is ignored.
applyCapSplitPercent_noCap(amountCents, boostPercent, basePercent, remainingCapCents) ==
  [boostVal |-> amountCents * boostPercent * 100,
   baseVal |-> 0,
   boostCents |-> amountCents,
   baseCents |-> 0]

\* Faulty variant of applyCapSplitPercent: the remainder earns the boost rate.
applyCapSplitPercent_oneRate(amountCents, boostPercent, basePercent, remainingCapCents) ==
  LET boostCents == Min(amountCents, Max(0, remainingCapCents))
      baseCents == amountCents - boostCents
  IN  [boostVal |-> boostCents * boostPercent * 100,
       baseVal |-> baseCents * boostPercent * 100,
       boostCents |-> boostCents,
       baseCents |-> baseCents]

\* Faulty variant of applyCapSplitPercent: a purchase larger than the
\* remaining cap earns the base rate on all of it.
applyCapSplitPercent_allOrNothing(amountCents, boostPercent, basePercent, remainingCapCents) ==
  LET boostCents == IF amountCents <= Max(0, remainingCapCents) THEN amountCents ELSE 0
      baseCents == amountCents - boostCents
  IN  [boostVal |-> boostCents * boostPercent * 100,
       baseVal |-> baseCents * basePercent * 100,
       boostCents |-> boostCents,
       baseCents |-> baseCents]

applyCapSplitPercent(amountCents, boostPercent, basePercent, remainingCapCents) ==
  LET boostCents == Min(amountCents, Max(0, remainingCapCents))
      baseCents == amountCents - boostCents
  IN  [boostVal |-> boostCents * boostPercent * 100,
       baseVal |-> baseCents * basePercent * 100,
       boostCents |-> boostCents,
       baseCents |-> baseCents]

offerAppliesToCard(off, card) ==
  IF off.card_scope.kind = "all" THEN TRUE
  ELSE IF off.card_scope.kind = "list" THEN card.id \in off.card_scope.ids
  ELSE FALSE

\* Faulty variant of offerMatchesCategory: the category list is not consulted.
offerMatchesCategory_always(off, categoryId) == TRUE

offerMatchesCategory(off, categoryId) ==
  IF off.categories = {} THEN TRUE
  ELSE categoryId \in off.categories

offerActiveNow(off, nowISO) == isWithin(nowISO, off.start_at, off.end_at)

\* Faulty variant of ResolveCpp: the program table is consulted before the
\* card's own cpp_default.
ResolveCpp_tableFirst(card, programOverrides) ==
  IF card.program \in DOMAIN programOverrides THEN programOverrides[card.program]
  ELSE IF card.program \in DOMAIN CPP_DEFAULTS THEN CPP_DEFAULTS[card.program]
  ELSE IF IsFinite(card.cpp_default) THEN card.cpp_default[1]
  ELSE 100

\* programOverrides[card.program] ?? cpp_default (if finite) ?? CPP_DEFAULTS[..] ?? 1.0
ResolveCpp(card, programOverrides) ==
  IF card.program \in DOMAIN programOverrides THEN programOverrides[card.program]
  ELSE IF IsFinite(card.cpp_default) THEN card.cpp_default[1]
  ELSE IF card.program \in DOMAIN CPP_DEFAULTS THEN CPP_DEFAULTS[card.program]
  ELSE 100

\* Faulty variant of StaticMult: the category entry is not looked up.
StaticMult_baseOnly(card, categoryId) ==
  IF Truthy(card.base) THEN card.base[1] ELSE 1

\* Number.isFinite(cats[categoryId]) ? Number(cats[categoryId]) : Number(card.base) || 1
StaticMult(card, categoryId) ==
  IF categoryId \in DOMAIN card.categories /\ IsFinite(card.categories[categoryId])
  THEN card.categories[categoryId][1]
  ELSE IF Truthy(card.base) THEN card.base[1] ELSE 1

\* Faulty variant of CardType: miles cards take the cashback branch.
CardType_milesAsCashback(card) ==
  IF card.type = "" THEN "points"
  ELSE IF card.type = "miles" THEN "cashback" ELSE card.type

\* card.type || "points" (an absent type is the empty string)
CardType(card) == IF card.type = "" THEN "points" ELSE card.type

\* Step 1 of valueFor: base earnings, with the rotating override for cashback.
\* split logs the applyCapSplitPercent call, if one was made.
BaseEarnings(card, p) ==
  LET staticMult == StaticMult(card, p.categoryId)
      cpp == ResolveCpp(card, p.programOverrides)
      win == activeRotatingWindow(card, p.categoryId, p.nowISO, p.userRotating)
  IN  IF CardType(card) = "cashback" THEN
        IF win # None /\ win[1].active THEN
          LET boostPercent == win[1].boostRatePercent
              afterPercent == IF win[1].afterRatePercent # None
                              THEN win[1].afterRatePercent[1] ELSE staticMult
              sp == applyCapSplitPercent(p.amountCents, boostPercent, afterPercent,
                                         win[1].remainingCapCents)
          IN  [baseValue |-> sp.baseVal,
               bonusValue |-> sp.boostVal,
               notes |-> <<Note("Rotating % applied (cap remaining)", boostPercent,
                               Some(money(sp.boostCents * 10000)))>>,
               split |-> <<[card |-> card.id,
                            amountCents |-> p.amountCents,
                            remainingCapCents |-> win[1].remainingCapCents,
                            boostCents |-> sp.boostCents,
                            baseCents |-> sp.baseCents]>>]
        ELSE
          [baseValue |-> p.amountCents * staticMult * 100,
           bonusValue |-> 0,
           notes |-> IF win # None /\ ~win[1].active
                     THEN <<Note("Activation required for rotating bonus", 0, None)>>
                     ELSE <<>>,
           split |-> <<>>]
      ELSE
        [baseValue |-> p.amountCents * staticMult * cpp,
         bonusValue |-> 0,
         notes |-> <<>>,
         split |-> <<>>]

\* Faulty variant of NotesInclude: the note is never found.
NotesInclude_never(notes, text) == FALSE

\* notes.includes(text)
NotesInclude(notes, text) == \E i \in 1..Len(notes) : notes[i].text = text

\* Faulty variant of PercentBack: the cap is noted but not applied.
PercentBack_uncapped(acc, off, amountCents) ==
  LET pct == NumberOr0(off.value.percent)
      offerValue == amountCents * pct * 100
      maxBackCents == IF Truthy(off.value.max_back_cents) THEN off.value.max_back_cents
                      ELSE off.value.max_amount_cents
  IN  IF Truthy(maxBackCents)
      THEN [acc EXCEPT
              !.bonusValue = @ + offerValue,
              !.notes = Append(@, Note("% back (capped at)", pct,
                                       Some(money(maxBackCents[1] * 10000))))]
      ELSE [acc EXCEPT
              !.bonusValue = @ + offerValue,
              !.notes = Append(@, Note("% back", pct, None))]

\* Faulty variant of PercentBack: the capped form of the note is used only
\* when the cap is the smaller of the two.
PercentBack_noteWhenLimited(acc, off, amountCents) ==
  LET pct == NumberOr0(off.value.percent)
      offerValue == amountCents * pct * 100
      maxBackCents == IF Truthy(off.value.max_back_cents) THEN off.value.max_back_cents
                      ELSE off.value.max_amount_cents
  IN  IF Truthy(maxBackCents) /\ offerValue > maxBackCents[1] * 10000
      THEN [acc EXCEPT
              !.bonusValue = @ + maxBackCents[1] * 10000,
              !.notes = Append(@, Note("% back (capped at)", pct,
                                       Some(money(maxBackCents[1] * 10000))))]
      ELSE [acc EXCEPT
              !.bonusValue = @ + offerValue,
              !.notes = Append(@, Note("% back", pct, None))]

\* the percent/cap block shared by statement_credit and percent_back
PercentBack(acc, off, amountCents) ==
  LET pct == NumberOr0(off.value.percent)
      offerValue == amountCents * pct * 100
      maxBackCents == IF Truthy(off.value.max_back_cents) THEN off.value.max_back_cents
                      ELSE off.value.max_amount_cents
  IN  IF Truthy(maxBackCents)
      THEN [acc EXCEPT
              !.bonusValue = @ + Min(offerValue, maxBackCents[1] * 10000),
              !.notes = Append(@, Note("% back (capped at)", pct,
                                       Some(money(maxBackCents[1] * 10000))))]
      ELSE [acc EXCEPT
              !.bonusValue = @ + offerValue,
              !.notes = Append(@, Note("% back", pct, None))]

\* Faulty variant of StatementCredit: the minimum spend has to be exceeded.
StatementCredit_strictMin(acc, off, amountCents) ==
  IF amountCents > NumberOr0(off.min_spend_cents) THEN
    IF Truthy(off.value.fixed_amount) THEN
      [acc EXCEPT
         !.bonusValue = @ + off.value.fixed_amount[1] * 10000,
         !.notes = Append(@, Note("statement credit", 0,
                                  Some(money(off.value.fixed_amount[1] * 10000))))]
    ELSE IF Truthy(off.value.percent) THEN PercentBack(acc, off, amountCents)
    ELSE acc
  ELSE acc

\* the statement_credit branch of the offers loop
StatementCredit(acc, off, amountCents) ==
  IF amountCents >= NumberOr0(off.min_spend_cents) THEN
    IF Truthy(off.value.fixed_amount) THEN
      [acc EXCEPT
         !.bonusValue = @ + off.value.fixed_amount[1] * 10000,
         !.notes = Append(@, Note("statement credit", 0,
                                  Some(money(off.value.fixed_amount[1] * 10000))))]
    ELSE IF Truthy(off.value.percent) THEN PercentBack(acc, off, amountCents)
    ELSE acc
  ELSE acc

\* Faulty variant of PointsMultiplier: the points are valued with the built-in
\* table, whatever programOverrides holds.
PointsMultiplier_tableCpp(acc, off, card, p) ==
  LET extraX == NumberOr0(off.value.points_multiplier)
      cpp == ResolveCpp(card, <<>>)
  IN  [acc EXCEPT
         !.bonusValue = @ + (IF CardType(card) = "cashback"
                             THEN p.amountCents * extraX * 100
                             ELSE p.amountCents * extraX * cpp),
         !.notes = Append(@, Note("x points", extraX, None))]

\* the points_multiplier branch of the offers loop
PointsMultiplier(acc, off, card, p) ==
  LET extraX == NumberOr0(off.value.points_multiplier)
      cpp == ResolveCpp(card, p.programOverrides)
  IN  [acc EXCEPT
         !.bonusValue = @ + (IF CardType(card) = "cashback"
                             THEN p.amountCents * extraX * 100
                             ELSE p.amountCents * extraX * cpp),
         !.notes = Append(@, Note("x points", extraX, None))]

\* Faulty variant of Dispatch: a type the engine does not know is valued as
\* percent_back.
Dispatch_defaultBranch(acc, off, card, p) ==
  IF off.offer_type = "statement_credit" THEN StatementCredit(acc, off, p.amountCents)
  ELSE IF off.offer_type = "points_multiplier" THEN PointsMultiplier(acc, off, card, p)
  ELSE PercentBack(acc, off, p.amountCents)

\* the if / else if chain on off.offer_type
Dispatch(acc, off, card, p) ==
  IF off.offer_type = "statement_credit" THEN StatementCredit(acc, off, p.amountCents)
  ELSE IF off.offer_type = "percent_back" THEN PercentBack(acc, off, p.amountCents)
  ELSE IF off.offer_type = "points_multiplier" THEN PointsMultiplier(acc, off, card, p)
  ELSE acc

\* Faulty variant of ApplyOffer: a new note is put in front of the others.
ApplyOffer_notesFirst(acc, off, card, p) ==
  LET r == IF ~offerActiveNow(off, p.nowISO) THEN acc
           ELSE IF ~offerAppliesToCard(off, card) THEN acc
           ELSE IF ~offerMatchesCategory(off, p.categoryId) THEN acc
           ELSE IF off.enrollment_required /\ off.id \notin p.userEnrolledOfferIds THEN
             IF ~NotesInclude(acc.notes, "Offer requires enrollment")
             THEN [acc EXCEPT !.notes = Append(@, Note("Offer requires enrollment", 0, None))]
             ELSE acc
           ELSE Dispatch(acc, off, card, p)
  IN  IF Len(r.notes) > Len(acc.notes)
      THEN [r EXCEPT !.notes = <<r.notes[Len(r.notes)]>> \o acc.notes]
      ELSE r

\* One iteration of the offers loop of valueFor
ApplyOffer(acc, off, card, p) ==
  IF ~offerActiveNow(off, p.nowISO) THEN acc
  ELSE IF ~offerAppliesToCard(off, card) THEN acc
  ELSE IF ~offerMatchesCategory(off, p.categoryId) THEN acc
  ELSE IF off.enrollment_required /\ off.id \notin p.userEnrolledOfferIds THEN
    IF ~NotesInclude(acc.notes, "Offer requires enrollment")
    THEN [acc EXCEPT !.notes = Append(@, Note("Offer requires enrollment", 0, None))]
    ELSE acc
  ELSE Dispatch(acc, off, card, p)

\* Faulty variant of StackOffers: only the first offer of the list is applied.
StackOffers_firstOnly(acc, offersForCard, i, card, p) ==
  IF i > Len(offersForCard) THEN acc
  ELSE ApplyOffer(acc, offersForCard[i], card, p)

RECURSIVE StackOffers(_, _, _, _, _)
\* for (const off of offersForCard), from index i on
StackOffers(acc, offersForCard, i, card, p) ==
  IF i > Len(offersForCard) THEN acc
  ELSE StackOffers(ApplyOffer(acc, offersForCard[i], card, p), offersForCard, i + 1, card, p)

\* Faulty variant of valueFor: dollars leaves the bonus out.
valueFor_baseOnly(card, p, offersForCard) ==
  LET b == BaseEarnings(card, p)
      r == StackOffers([baseValue |-> b.baseValue, bonusValue |-> b.bonusValue,
                        notes |-> b.notes], offersForCard, 1, card, p)
  IN  [dollars |-> r.baseValue,
       baseValue |-> r.baseValue,
       bonusValue |-> r.bonusValue,
       notes |-> r.notes]

valueFor(card, p, offersForCard) ==
  LET b == BaseEarnings(card, p)
      r == StackOffers([baseValue |-> b.baseValue, bonusValue |-> b.bonusValue,
                        notes |-> b.notes], offersForCard, 1, card, p)
  IN  [dollars |-> r.baseValue + r.bonusValue,
       baseValue |-> r.baseValue,
       bonusValue |-> r.bonusValue,
       notes |-> r.notes]

\* Faulty variant of compare: the bonusValue tie-break is left out.
compare_dollarsOnly(a, b) == b.dollars - a.dollars

\* The comparator handed to results.sort
compare(a, b) ==
  IF b.dollars # a.dollars THEN b.dollars - a.dollars
  ELSE b.bonusValue - a.bonusValue

RECURSIVE InsertSorted_unstable(_, _)
\* Faulty variant of InsertSorted: x goes in front of the elements it ties with.
InsertSorted_unstable(x, t) ==
  IF t = <<>> THEN <<x>>
  ELSE IF compare(t[Len(t)], x) < 0 THEN Append(t, x)
  ELSE Append(InsertSorted_unstable(x, SubSeq(t, 1, Len(t) - 1)), t[Len(t)])

RECURSIVE InsertSorted(_, _)
\* Array.prototype.sort is stable (ECMAScript 2019): x, which followed every
\* element of the sorted t in the input, goes behind all those it does not
\* have to precede.
InsertSorted(x, t) ==
  IF t = <<>> THEN <<x>>
  ELSE IF compare(t[Len(t)], x) <= 0 THEN Append(t, x)
  ELSE Append(InsertSorted(x, SubSeq(t, 1, Len(t) - 1)), t[Len(t)])

RECURSIVE SortPrefix(_, _)
SortPrefix(s, n) ==
  IF n = 0 THEN <<>> ELSE InsertSorted(s[n], SortPrefix(s, n - 1))

\* Faulty variant of SortResults: the last element is left out.
SortResults_dropLast(s) == SortPrefix(s, Max(0, Len(s) - 1))

\* results.sort((a, b) => ...)
SortResults(s) == SortPrefix(s, Len(s))

\* offersByCard[card.id] || [], as offer records
OffersFor(byCard, id) ==
  IF id \in DOMAIN byCard
  THEN [i \in 1..Len(byCard[id]) |-> OfferCatalog[byCard[id][i]]]
  ELSE <<>>

\* ------------------------------------------------------------ the inputs
Amounts == {0, 1999, 2000, 5000, 50000, 200000}
RankAmounts == {0, 2000, 200000}

\* new Date().toISOString() gives the millisecond form
NowInWindow == [day |-> 2, sec |-> 43200, frac |-> 0]
NowAfterWindow == [day |-> 4, sec |-> 0, frac |-> 0]

Range(s) == {s[i] : i \in 1..Len(s)}

\* sequences of distinct elements of S, of length at most n
DistinctSeqs(S, n) ==
  {s \in UNION {[1..k -> S] : k \in 0..n} :
     \A i, j \in 1..Len(s) : i # j => s[i] # s[j]}

UserRotatingStates ==
  { [activated |-> FALSE, remainingCapCents |-> None],
    [activated |-> TRUE, remainingCapCents |-> None],
    [activated |-> TRUE, remainingCapCents |-> Some(100000)],
    [activated |-> TRUE, remainingCapCents |-> Some(0)],
    [activated |-> TRUE, remainingCapCents |-> Some(-500)] }

\* cards that carry rotating rules
RotatingCardIds ==
  {id \in CardIds : CardCatalog[id].rotating_rules \notin {None, Some(<<>>)}}

\* userRotating: no entry at all, or one entry for a wallet card with rules
UserRotatingMaps(ids, states) ==
  {<<>>} \cup {id :> u : id \in ids \cap RotatingCardIds, u \in states}

EnrolledChoices == {{}, {"o_pct"}, {"o_pct", "o_back"}}

\* the wallets that are ranked are drawn from these cards
RankCardIds == {"discover_it", "cash3", "cash5", "ur_card"}

\* cards that earn points or miles
PointsCardIds == {id \in CardIds : CardCatalog[id].type # "cashback"}

\* programOverrides, in hundredths of a cent per point
ProgramOverrideChoices ==
  {"UR" :> 200, "XYZ" :> 0, ("UR" :> 200) @@ ("Cap1" :> 50)}

\* instants at the edges of the window of days 1..3, in both string forms
BoundaryInstants ==
  { [day |-> 0, sec |-> 86399, frac |-> 999],
    [day |-> 1, sec |-> 0, frac |-> -1],
    [day |-> 1, sec |-> 0, frac |-> 0],
    [day |-> 1, sec |-> 1, frac |-> 0],
    [day |-> 3, sec |-> 86399, frac |-> -1],
    [day |-> 3, sec |-> 86399, frac |-> 999],
    [day |-> 4, sec |-> 0, frac |-> -1] }

RankOfferLists == {<<>>, <<"o_fixed", "o_mult">>}

\* the offers of the single valuations, and those of the stacking valuations
ValueOfferIds == {"o_fixed", "o_pct", "o_back", "o_mult", "o_old"}
StackOfferIds ==
  {"o_pct", "o_mult", "o_soon", "o_cap0", "o_two", "o_both", "o_rebate", "o_portal"}
StackCardIds == {"cash3", "ur_card", "discover_it"}
StackAmounts == {0, 2000, 50000}
StackEnrolled == {{}, {"o_pct", "o_soon", "o_rebate"}}

Params(a, c, now, rot, enrolled) ==
  [amountCents |-> a, categoryId |-> c, programOverrides |-> <<>>, nowISO |-> now,
   userRotating |-> rot, userEnrolledOfferIds |-> enrolled]

\* one valueFor call: a one-card wallet, every combination of parameters
InitValue ==
  \E id \in CardIds, a \in Amounts, c \in CategoryIds, now \in {NowInWindow} :
  \E rot \in UserRotatingMaps({id} \ PointsCardIds, UserRotatingStates),
     enrolled \in EnrolledChoices, offs \in DistinctSeqs(ValueOfferIds, MaxOffers) :
    /\ cards = <<id>>
    /\ params = Params(a, c, now, rot, enrolled)
    /\ offersByCard = (id :> offs)

\* one valueFor call for a points or miles card with cents-per-point overrides
InitCpp ==
  \E id \in PointsCardIds, a \in {2000, 50000}, c \in CategoryIds,
     ov \in ProgramOverrideChoices, offs \in {<<>>, <<"o_mult">>} :
    /\ cards = <<id>>
    /\ params = [Params(a, c, NowInWindow, <<>>, {}) EXCEPT !.programOverrides = ov]
    /\ offersByCard = (id :> offs)

\* one valueFor call for a card with rotating rules at the edges of a window
InitWindow ==
  \E id \in RotatingCardIds, a \in {2000, 200000}, c \in CategoryIds,
     now \in BoundaryInstants :
  \E rot \in UserRotatingMaps({id}, {[activated |-> TRUE, remainingCapCents |-> None]}) :
    /\ cards = <<id>>
    /\ params = Params(a, c, now, rot, {})
    /\ offersByCard = <<>>

\* one valueFor call over offer lists with caps of 0, two cap fields, a fixed
\* amount next to a percent, a later start and a type the engine does not know
InitOffer ==
  \E id \in StackCardIds, a \in StackAmounts, c \in CategoryIds,
     now \in {NowInWindow, NowAfterWindow}, enrolled \in StackEnrolled,
     offs \in DistinctSeqs(StackOfferIds, MaxOffers) :
    /\ cards = <<id>>
    /\ params = Params(a, c, now, <<>>, enrolled)
    /\ offersByCard = (id :> offs)

\* a ranking call: wallets of up to MaxWallet cards in any order
InitRank ==
  \E w \in DistinctSeqs(RankCardIds, MaxWallet), a \in RankAmounts, c \in CategoryIds :
  \E rot \in UserRotatingMaps(Range(w),
                {[activated |-> TRUE, remainingCapCents |-> Some(100000)]}),
     byCard \in [Range(w) -> RankOfferLists] :
    /\ cards = w
    /\ params = Params(a, c, NowInWindow, rot, {})
    /\ offersByCard = byCard

\* the state of the application when it is first opened: no wallet, the
\* setup wizard displayed at its first step with nothing picked. The arrays
\* ownedIds and selectedCards never hold an id twice and are read with
\* includes, filter and length only: they are kept as sets.
InitApp ==
  /\ ownedIds = {}
  /\ showOnboarding = TRUE
  /\ step = 1
  /\ selectedCards = {}

Init ==
  /\ InitValue \/ InitCpp \/ InitWindow \/ InitOffer \/ InitRank
  /\ results = <<>>
  /\ pc = "loop"
  /\ splitCalls = <<>>
  /\ InitApp

\* ----------------------------------------------------------- rankCards
\* One iteration of `for (const card of cards)`: value the card, push it.
ValueCard ==
  /\ pc = "loop"
  /\ Len(results) < Len(cards)
  /\ LET id == cards[Len(results) + 1]
         card == CardCatalog[id]
         v == valueFor(card, params, OffersFor(offersByCard, id))
     IN  /\ results' = Append(results, [card |-> id, dollars |-> v.dollars,
                                        baseValue |-> v.baseValue,
                                        bonusValue |-> v.bonusValue,
                                        notes |-> v.notes])
         /\ splitCalls' = splitCalls \o BaseEarnings(card, params).split
  /\ UNCHANGED <<cards, params, offersByCard, pc>>
  /\ UNCHANGED appVars

\* Faulty variant of SortAndReturn: the wallet array itself is sorted along.
SortAndReturn_sortsWallet ==
  /\ pc = "loop"
  /\ Len(results) = Len(cards)
  /\ results' = SortResults(results)
  /\ cards' = [i \in 1..Len(cards) |-> SortResults(results)[i].card]
  /\ pc' = "done"
  /\ UNCHANGED <<params, offersByCard, splitCalls>>
  /\ UNCHANGED appVars

\* After the loop: sort the results and return them.
SortAndReturn ==
  /\ pc = "loop"
  /\ Len(results) = Len(cards)
  /\ results' = SortResults(results)
  /\ pc' = "done"
  /\ UNCHANGED <<cards, params, offersByCard, splitCalls>>
  /\ UNCHANGED appVars

Next == ValueCard \/ SortAndReturn

Spec == Init /\ [][Next]_vars

\* -------------------------------------------------- the application
\* the cards the application offers, in the order of the catalog
cardsCatalog == <<"discover_it", "cash3", "cash5", "ur_card", "miles_card", "capless">>

maxCards == 5
totalSteps == 3

\* the view of the main screen: the state is set once and has no setter call
currentView == "recommendation"

\* cardsCatalog.filter(c => ownedIds.includes(c.id))
ownedCards(ids) == SelectSeq(cardsCatalog, LAMBDA id : id \in ids)

\* the rotating payload: an entry only if Discover is owned, activated and
\* with $1500 of cap left as the stored defaults have it
userRotating(ids) ==
  IF "discover_it" \notin ids THEN <<>>
  ELSE "discover_it" :> [activated |-> TRUE, remainingCapCents |-> Some(150000)]

\* no merchant is chosen: every owned card has the empty list of offers
AppOffersByCard(ids) == [id \in ids |-> <<>>]

\* the params of the call of rankCards: $50 of dining, now
AppParams(ids) == Params(5000, "dining", NowInWindow, userRotating(ids), {})

\* A handler has set ownedIds: the component renders again and its useMemo
\* hooks compute the wallet, the params and the offers anew and call
\* rankCards on them. The call runs as ValueCard and SortAndReturn; nothing
\* is displayed, and no handler can run, before it has returned.
Render(ids) ==
  /\ cards' = ownedCards(ids)
  /\ params' = AppParams(ids)
  /\ offersByCard' = AppOffersByCard(ids)
  /\ results' = <<>>
  /\ splitCalls' = <<>>
  /\ pc' = "loop"

\* the wizard is displayed
WizardRendered == showOnboarding /\ pc = "done"

\* `top = recommendations[0]` is dereferenced while the main screen renders:
\* without a first recommendation the render throws and nothing is displayed
MainRendered == ~showOnboarding /\ pc = "done" /\ results # <<>>

\* the first render: the wallet is empty and so is the ranked list
InitAppScreen ==
  /\ InitApp
  /\ cards = ownedCards({})
  /\ params = AppParams({})
  /\ offersByCard = AppOffersByCard({})
  /\ results = <<>>
  /\ splitCalls = <<>>
  /\ pc = "done"

\* the wizard's card tile: pick or unpick a card on step 2; a card that is
\* not picked is disabled once maxCards are picked
CardSelectionStep_toggleCard ==
  \E id \in Range(cardsCatalog) :
    /\ WizardRendered /\ step = 2
    /\ ~(id \notin selectedCards /\ Cardinality(selectedCards) >= maxCards)
    /\ selectedCards' = IF id \in selectedCards THEN selectedCards \ {id}
                        ELSE selectedCards \cup {id}
    /\ UNCHANGED <<cards, params, offersByCard, results, pc, splitCalls,
                   ownedIds, showOnboarding, step>>

\* "Get Started" / "Continue": disabled on step 2 while nothing is picked
nextStep ==
  /\ WizardRendered /\ step < totalSteps
  /\ ~(step = 2 /\ selectedCards = {})
  /\ step' = step + 1
  /\ UNCHANGED <<cards, params, offersByCard, results, pc, splitCalls,
                 ownedIds, showOnboarding, selectedCards>>

\* "Back": disabled on step 1
prevStep ==
  /\ WizardRendered /\ step > 1
  /\ step' = step - 1
  /\ UNCHANGED <<cards, params, offersByCard, results, pc, splitCalls,
                 ownedIds, showOnboarding, selectedCards>>

\* "Complete Setup" on the last step: finish calls completeOnboarding, which
\* stores the picked cards as the wallet and hides the wizard; the wizard is
\* unmounted and starts from its initial state when it is shown again
finish ==
  /\ WizardRendered /\ step = totalSteps
  /\ ownedIds' = selectedCards
  /\ showOnboarding' = FALSE
  /\ step' = 1
  /\ selectedCards' = {}
  /\ Render(selectedCards)

\* "Re-run setup wizard" in the header of the main screen
RerunSetupWizard ==
  /\ MainRendered
  /\ showOnboarding' = TRUE
  /\ UNCHANGED <<cards, params, offersByCard, results, pc, splitCalls,
                 ownedIds, step, selectedCards>>

\* the wallet section's card tile in the list of cards to add
WalletSection_toggleCard ==
  \E id \in Range(cardsCatalog) :
    /\ MainRendered
    /\ ownedIds' = IF id \in ownedIds THEN ownedIds \ {id} ELSE ownedIds \cup {id}
    /\ Render(ownedIds')
    /\ UNCHANGED <<showOnboarding, step, selectedCards>>

\* the "remove from wallet" button of a wallet card
removeCard ==
  \E id \in ownedIds :
    /\ MainRendered
    /\ ownedIds' = ownedIds \ {id}
    /\ Render(ownedIds')
    /\ UNCHANGED <<showOnboarding, step, selectedCards>>

AppNext ==
  \/ CardSelectionStep_toggleCard
  \/ nextStep
  \/ prevStep
  \/ finish
  \/ RerunSetupWizard
  \/ WalletSection_toggleCard
  \/ removeCard
  \/ ValueCard
  \/ SortAndReturn

AppSpec == InitAppScreen /\ [][AppNext]_vars

\* ------------------------------------------------------------ properties
\* helpers of the properties below
RateOf(r) == IF r.rate # None THEN r.rate[1] ELSE 0
IndexOf(s, x) == CHOOSE i \in 1..Len(s) : s[i] = x
RemoveAt(s, k) == SubSeq(s, 1, k - 1) \o SubSeq(s, k + 1, Len(s))
InsertAt(s, k, x) == SubSeq(s, 1, k) \o <<x>> \o SubSeq(s, k + 1, Len(s))
CountNotes(notes, text) == Cardinality({i \in 1..Len(notes) : notes[i].text = text})
ResultCard(i) == CardCatalog[results[i].card]
ResultOffers(i) == OffersFor(offersByCard, results[i].card)
Reordered == \E i \in 1..Len(results) : results[i].card # cards[i]

\* the rotating rule the code matches for a card (None if there is none)
MatchedRule(card) ==
  IF card.rotating_rules = None THEN None
  ELSE FirstMatch(card.rotating_rules[1], 1, params.categoryId, params.nowISO)

\* C1: the list rankCards returns is ordered by dollars descending, and among
\* equal dollars by bonusValue descending.
C1_RankedDescending ==
  pc = "done" =>
    \A i, j \in 1..Len(results) :
      i < j => /\ results[i].dollars >= results[j].dollars
               /\ results[i].dollars = results[j].dollars
                    => results[i].bonusValue >= results[j].bonusValue

\* a returned list of three that the sort had to reorder, holding a pair that
\* ties on dollars and differs in bonusValue
C1_Witness ==
  /\ pc = "done" /\ Len(results) = 3 /\ Reordered
  /\ results[1].dollars > results[3].dollars
  /\ \E i \in 1..2 : /\ results[i].dollars = results[i + 1].dollars
                      /\ results[i].bonusValue > results[i + 1].bonusValue
                      /\ IndexOf(cards, results[i].card) > IndexOf(cards, results[i + 1].card)

\* C2: rankCards is stable: results that tie on dollars and on bonusValue keep
\* the relative order their cards have in the input wallet.
C2_StableOnTies ==
  pc = "done" =>
    \A i, j \in 1..Len(results) :
      (/\ i < j
       /\ results[i].dollars = results[j].dollars
       /\ results[i].bonusValue = results[j].bonusValue)
        => IndexOf(cards, results[i].card) < IndexOf(cards, results[j].card)

\* a reordered list in which two results tie on a positive value
C2_Witness ==
  /\ pc = "done" /\ Len(results) = 3 /\ Reordered
  /\ \E i \in 1..2 : /\ results[i].dollars = results[i + 1].dollars
                      /\ results[i].bonusValue = results[i + 1].bonusValue
                      /\ results[i].dollars > 0

\* C3: rankCards returns one result per wallet entry, the cards of the results
\* being a permutation of the wallet; an empty wallet gives an empty list.
C3_OneResultPerCard ==
  pc = "done" =>
    /\ Len(results) = Len(cards)
    /\ \A id \in CardIds :
         Cardinality({i \in 1..Len(results) : results[i].card = id})
           = Cardinality({i \in 1..Len(cards) : cards[i] = id})
    /\ cards = <<>> => results = <<>>

\* a full wallet returned in another order
C3_Witness ==
  /\ pc = "done" /\ Len(cards) = MaxWallet /\ Reordered
  /\ results[Len(results)].card = cards[1]

\* C4: every result has dollars = baseValue + bonusValue.
C4_DollarsIsSum ==
  \A i \in 1..Len(results) :
    results[i].dollars = results[i].baseValue + results[i].bonusValue

\* a result with a positive base, a rotating boost and offer value on top
C4_Witness ==
  \E i \in 1..Len(results) :
    /\ results[i].baseValue > 0
    /\ results[i].bonusValue > 0
    /\ Len(results[i].notes) >= 2
    /\ splitCalls # <<>>

\* C5: cap conservation: every split through an active rotating window has
\* boostCents + baseCents = amountCents, 0 <= boostCents <= remainingCapCents
\* (the resolved remaining cap) and baseCents >= 0.
C5_CapConservation ==
  \A k \in 1..Len(splitCalls) :
    LET sp == splitCalls[k]
    IN  /\ sp.boostCents + sp.baseCents = sp.amountCents
        /\ 0 <= sp.boostCents
        /\ sp.boostCents <= sp.remainingCapCents
        /\ sp.baseCents >= 0

\* a purchase larger than a positive remaining cap
C5_Witness ==
  \E k \in 1..Len(splitCalls) :
    /\ splitCalls[k].remainingCapCents > 0
    /\ splitCalls[k].amountCents > splitCalls[k].remainingCapCents
    /\ splitCalls[k].boostCents = splitCalls[k].remainingCapCents

\* the results of cashback cards whose matched rotating rule is active
ActiveRotating(i) ==
  /\ ResultCard(i).type = "cashback"
  /\ MatchedRule(ResultCard(i)) # None
  /\ LET r == MatchedRule(ResultCard(i))[1]
     IN  r.activation_required
           => UserRotatingOf(params.userRotating, results[i].card).activated

\* the results of cashback cards whose matched rule awaits activation
AwaitsActivation(i) ==
  /\ ResultCard(i).type = "cashback"
  /\ MatchedRule(ResultCard(i)) # None
  /\ MatchedRule(ResultCard(i))[1].activation_required
  /\ ~UserRotatingOf(params.userRotating, results[i].card).activated

\* the static multiplier valueFor works with for the category: the card's
\* category entry, else its base (a base that is absent or 0 counts as 1;
\* C19 is about that resolution)
StaticRate(card) ==
  IF card.categories[params.categoryId] # None
  THEN card.categories[params.categoryId][1]
  ELSE IF card.base # None /\ card.base[1] # 0 THEN card.base[1] ELSE 1

\* the remaining cap the split works with: the caller's figure, else the
\* rule's cap, never below 0
RemainingCap(i) ==
  LET u == UserRotatingOf(params.userRotating, results[i].card)
      r == MatchedRule(ResultCard(i))[1]
  IN  Max(0, IF u.remainingCapCents # None THEN u.remainingCapCents[1]
             ELSE IF r.cap_cents # None THEN r.cap_cents[1] ELSE 0)

\* C6: for a cashback card with an active rotating window and no offers, with
\* boostCents = min(amountCents, remainingCapCents), bonusValue is boostCents
\* at the rule's rate and baseValue is the rest of the amount at the rule's
\* after_rate, or at the card's static rate when the rule has no after_rate;
\* rate 5, after_rate 1, remaining cap 100000 and amount 200000 give
\* $50.00 + $10.00 = $60.00.
C6_RotatingSplitValues ==
  \A i \in 1..Len(results) :
    (ActiveRotating(i) /\ ResultOffers(i) = <<>>) =>
      LET r == MatchedRule(ResultCard(i))[1]
          boostCents == Min(params.amountCents, RemainingCap(i))
          after == IF r.after_rate # None THEN r.after_rate[1]
                   ELSE StaticRate(ResultCard(i))
      IN  /\ results[i].bonusValue = boostCents * RateOf(r) * 100
          /\ results[i].baseValue = (params.amountCents - boostCents) * after * 100
          /\ (/\ r.rate = Some(5) /\ r.after_rate = Some(1)
              /\ RemainingCap(i) = 100000 /\ params.amountCents = 200000)
               => /\ results[i].bonusValue = 50000000
                  /\ results[i].baseValue = 10000000
                  /\ results[i].dollars = 60000000

\* the example: rate 5, after_rate 1, cap remaining 100000, amount 200000
C6_Witness ==
  \E i \in 1..Len(results) :
    /\ ActiveRotating(i) /\ ResultOffers(i) = <<>>
    /\ MatchedRule(ResultCard(i))[1].rate = Some(5)
    /\ MatchedRule(ResultCard(i))[1].after_rate = Some(1)
    /\ RemainingCap(i) = 100000 /\ params.amountCents = 200000
    /\ results[i].dollars = 60000000

\* C7: for a cashback card whose matched rotating rule requires activation
\* and whose user state is not activated, the whole amount earns the static
\* rate, the rule adds nothing to bonusValue (which is 0 without offers), and
\* notes holds "Activation required for rotating bonus".
C7_NotActivated ==
  \A i \in 1..Len(results) :
    AwaitsActivation(i) =>
      /\ results[i].baseValue = params.amountCents * StaticRate(ResultCard(i)) * 100
      /\ ResultOffers(i) = <<>> => results[i].bonusValue = 0
      /\ results[i].bonusValue =
           valueFor([ResultCard(i) EXCEPT !.rotating_rules = None], params,
                    ResultOffers(i)).bonusValue
      /\ CountNotes(results[i].notes, "Activation required for rotating bonus") = 1

\* a positive purchase on a card that awaits activation, no offers
C7_Witness ==
  \E i \in 1..Len(results) :
    /\ AwaitsActivation(i) /\ ResultOffers(i) = <<>>
    /\ params.amountCents > 0
    /\ results[i].dollars = results[i].baseValue
    /\ results[i].baseValue = params.amountCents * 100

\* the offers of result i that need an enrollment the caller does not have
Gated(i) ==
  {k \in 1..Len(ResultOffers(i)) :
     /\ ResultOffers(i)[k].enrollment_required
     /\ ResultOffers(i)[k].id \notin params.userEnrolledOfferIds}

\* the offers that are live, scoped to the card and matching the category
PassesFilters(off, card) ==
  /\ off.start_at # None => ~IsoLess(params.nowISO, off.start_at[1])
  /\ off.end_at # None => ~IsoLess(off.end_at[1], params.nowISO)
  /\ off.card_scope.kind = "all" \/ card.id \in off.card_scope.ids
  /\ off.categories = {} \/ params.categoryId \in off.categories

\* C8: an offer that requires enrollment and is not enrolled contributes 0 to
\* bonusValue; when at least one such offer passes the time, scope and
\* category filters, notes holds "Offer requires enrollment" exactly once.
C8_EnrollmentGate ==
  \A i \in 1..Len(results) :
    /\ \A k \in Gated(i) :
         LET without == valueFor(ResultCard(i), params, RemoveAt(ResultOffers(i), k))
         IN  /\ without.bonusValue = results[i].bonusValue
             /\ without.dollars = results[i].dollars
    /\ (\E k \in Gated(i) : PassesFilters(ResultOffers(i)[k], ResultCard(i)))
         => CountNotes(results[i].notes, "Offer requires enrollment") = 1

\* two offers skipped for want of enrollment, on a purchase that would have
\* earned from both
C8_Witness ==
  \E i \in 1..Len(results) :
    /\ Cardinality({k \in Gated(i) :
                      PassesFilters(ResultOffers(i)[k], ResultCard(i))}) >= 2
    /\ params.amountCents >= 2000
    /\ CountNotes(results[i].notes, "Offer requires enrollment") = 1

\* C9: stacking additivity: a call with one more offer in the card's offer
\* list never has a lower bonusValue than the same call without that offer,
\* and has exactly what that offer earns on its own more: the offers are
\* summed, none excludes another.
C9_StackingAdditive ==
  \A i \in 1..Len(results) :
    LET card == ResultCard(i)
        none == valueFor(card, params, <<>>)
    IN  \A k \in 1..Len(ResultOffers(i)) :
          LET without == valueFor(card, params, RemoveAt(ResultOffers(i), k))
              alone == valueFor(card, params, <<ResultOffers(i)[k]>>)
          IN  /\ results[i].bonusValue >= without.bonusValue
              /\ results[i].bonusValue - without.bonusValue
                   = alone.bonusValue - none.bonusValue

\* a result that two offers contribute to, each with its own note
C9_Witness ==
  \E i \in 1..Len(results) :
    /\ Len(ResultOffers(i)) = 2
    /\ \A k \in 1..2 :
         valueFor(ResultCard(i), params, RemoveAt(ResultOffers(i), k)).bonusValue
           < results[i].bonusValue

\* C10: monotonicity in the amount: with everything else fixed, a smaller
\* amountCents never gives more dollars.
C10_MonotoneInAmount ==
  \A i \in 1..Len(results) :
    \A a1 \in Amounts :
      a1 <= params.amountCents =>
        valueFor(ResultCard(i), [params EXCEPT !.amountCents = a1],
                 ResultOffers(i)).dollars <= results[i].dollars

\* a purchase beyond the remaining cap, the min-spend threshold and an offer
\* cap, worth more than a purchase below all three
C10_Witness ==
  \E i \in 1..Len(results) :
    /\ ActiveRotating(i)
    /\ params.amountCents > RemainingCap(i) /\ RemainingCap(i) > 1999
    /\ \E k \in 1..Len(ResultOffers(i)) :
         /\ ResultOffers(i)[k].id = "o_pct"
         /\ "o_pct" \in params.userEnrolledOfferIds
    /\ valueFor(ResultCard(i), [params EXCEPT !.amountCents = 1999],
                ResultOffers(i)).dollars < results[i].dollars

\* the cap an offer states: max_back_cents, else max_amount_cents
StatedCap(off) ==
  IF off.value.max_back_cents # None THEN off.value.max_back_cents
  ELSE off.value.max_amount_cents

\* the offers of result i the caller is enrolled in, where that is required
Enrolled(off) ==
  off.enrollment_required => off.id \in params.userEnrolledOfferIds

\* what offer k adds to the bonusValue of result i
Contribution(i, k) ==
  results[i].bonusValue
    - valueFor(ResultCard(i), params, RemoveAt(ResultOffers(i), k)).bonusValue

\* a percent-based statement credit with a cap that qualifies for result i
CappedCredit(i, k) ==
  LET off == ResultOffers(i)[k]
  IN  /\ off.offer_type = "statement_credit"
      /\ off.value.fixed_amount = None /\ off.value.percent # None
      /\ StatedCap(off) # None
      /\ PassesFilters(off, ResultCard(i)) /\ Enrolled(off)
      /\ off.min_spend_cents # None => params.amountCents >= off.min_spend_cents[1]

\* C12: a percent-based statement_credit offer with a cap that passes
\* filtering and meets min spend contributes min(amount * percent/100,
\* cap_cents/100) dollars, never more than the cap; 10% of $500.00 with
\* max_back_cents 2000 contributes $20.00.
C12_CappedStatementCredit ==
  \A i \in 1..Len(results) :
    \A k \in 1..Len(ResultOffers(i)) :
      CappedCredit(i, k) =>
        LET off == ResultOffers(i)[k]
            raw == params.amountCents * off.value.percent[1] * 100
            cap == StatedCap(off)[1] * 10000
        IN  /\ Contribution(i, k) = Min(raw, cap)
            /\ Contribution(i, k) <= cap
            /\ (/\ off.value.percent = Some(10) /\ StatedCap(off) = Some(2000)
                /\ params.amountCents = 50000)
                 => Contribution(i, k) = 20000000

\* the example: 10% of $500.00, capped at $20.00
C12_Witness ==
  \E i \in 1..Len(results) :
    \E k \in 1..Len(ResultOffers(i)) :
      /\ CappedCredit(i, k)
      /\ params.amountCents = 50000
      /\ ResultOffers(i)[k].value.percent = Some(10)
      /\ StatedCap(ResultOffers(i)[k]) = Some(2000)
      /\ Contribution(i, k) = 20000000

\* C13: for a cashback card with no matching rotating rule and no offers,
\* baseValue = (amountCents/100) * m/100 with m the card's multiplier for the
\* category, bonusValue = 0, dollars = baseValue and notes is empty;
\* categories grocery = 3 and amountCents = 5000 give 1.50 / 0 / 1.50.
C13_StaticCashback ==
  \A i \in 1..Len(results) :
    (/\ ResultCard(i).type = "cashback"
     /\ ResultOffers(i) = <<>>
     /\ \/ ResultCard(i).rotating_rules = None
        \/ \A k \in 1..Len(ResultCard(i).rotating_rules[1]) :
             ~RuleMatches(ResultCard(i).rotating_rules[1][k],
                          params.categoryId, params.nowISO))
      => /\ results[i].baseValue = params.amountCents * StaticRate(ResultCard(i)) * 100
         /\ results[i].bonusValue = 0
         /\ results[i].dollars = results[i].baseValue
         /\ results[i].notes = <<>>
         /\ (/\ ResultCard(i).categories[params.categoryId] = Some(3)
             /\ params.amountCents = 5000)
              => results[i].baseValue = 1500000

\* the example: a 3% category on a purchase of $50.00
C13_Witness ==
  \E i \in 1..Len(results) :
    /\ ResultCard(i).type = "cashback" /\ ResultCard(i).rotating_rules = None
    /\ ResultOffers(i) = <<>>
    /\ ResultCard(i).categories[params.categoryId] = Some(3)
    /\ params.amountCents = 5000
    /\ results[i].dollars = 1500000 /\ results[i].notes = <<>>

\* C14: rankCards and valueFor leave their inputs as they were: no step
\* changes the wallet, the parameters (userRotating and the enrolled set
\* among them) or the offer lists; only the fresh result list is sorted.
C14_InputsUnchanged ==
  [][/\ cards' = cards
     /\ params' = params
     /\ offersByCard' = offersByCard]_vars

\* a returned list in another order than the wallet it was computed from
C14_Witness ==
  /\ pc = "done" /\ Len(cards) = MaxWallet /\ Reordered
  /\ {results[i].card : i \in 1..Len(results)} = Range(cards)

\* positions of the rules of a card that match the category and the instant
MatchingRules(card) ==
  LET rules == IF card.rotating_rules = None THEN <<>> ELSE card.rotating_rules[1]
  IN  {k \in 1..Len(rules) : RuleMatches(rules[k], params.categoryId, params.nowISO)}

\* the matching rule that comes first in the array
EarliestRule(card) ==
  card.rotating_rules[1][CHOOSE k \in MatchingRules(card) :
                           \A j \in MatchingRules(card) : k <= j]

\* the cap left under rule r for the user entry u
CapLeft(r, u) ==
  IF u.remainingCapCents # None THEN Max(0, u.remainingCapCents[1])
  ELSE IF r.cap_cents # None THEN Max(0, r.cap_cents[1])
  ELSE 0

\* C15: the rotating rule in force is the first one in array order whose
\* category_ids contain the category and whose window contains now; later
\* rules are not considered, even when the first match is not activated or
\* has no cap left; with no match there is no rotating window.
C15_FirstMatchWins ==
  \A i \in 1..Len(results) :
    ResultCard(i).type = "cashback" =>
      LET card == ResultCard(i)
          u == UserRotatingOf(params.userRotating, card.id)
          notes == results[i].notes
      IN  IF MatchingRules(card) = {}
          THEN /\ CountNotes(notes, "Rotating % applied (cap remaining)") = 0
               /\ CountNotes(notes, "Activation required for rotating bonus") = 0
               /\ results[i].baseValue = params.amountCents * StaticRate(card) * 100
          ELSE LET r == EarliestRule(card)
                   boost == Min(params.amountCents, CapLeft(r, u))
                   after == IF r.after_rate # None THEN r.after_rate[1]
                            ELSE StaticRate(card)
               IN  IF r.activation_required /\ ~u.activated
                   THEN /\ notes # <<>>
                        /\ notes[1].text = "Activation required for rotating bonus"
                        /\ CountNotes(notes, "Rotating % applied (cap remaining)") = 0
                        /\ results[i].baseValue
                             = params.amountCents * StaticRate(card) * 100
                   ELSE /\ notes # <<>>
                        /\ notes[1].text = "Rotating % applied (cap remaining)"
                        /\ notes[1].n = RateOf(r)
                        /\ results[i].baseValue
                             = (params.amountCents - boost) * after * 100
                        /\ ResultOffers(i) = <<>>
                             => results[i].bonusValue = boost * RateOf(r) * 100

\* two rules match at once and the first of them is not activated: the
\* second, which needs no activation, is not applied
C15_Witness ==
  \E i \in 1..Len(results) :
    /\ Cardinality(MatchingRules(ResultCard(i))) = 2
    /\ EarliestRule(ResultCard(i)).activation_required
    /\ ~UserRotatingOf(params.userRotating, results[i].card).activated
    /\ params.amountCents > 0
    /\ results[i].notes[1].text = "Activation required for rotating bonus"
    /\ results[i].bonusValue = 0

\* C17: the cap left in an active window is max(0, userRotating[card.id]
\* .remainingCapCents) when that is supplied, else max(0, cap_cents) of the
\* rule, else 0; it is never negative, and a negative supplied value puts the
\* whole amount at the after/base rate.
C17_RemainingCap ==
  \A k \in 1..Len(splitCalls) :
    LET sc == splitCalls[k]
        card == CardCatalog[sc.card]
        r == EarliestRule(card)
        u == UserRotatingOf(params.userRotating, card.id)
        after == IF r.after_rate # None THEN r.after_rate[1] ELSE StaticRate(card)
    IN  /\ sc.remainingCapCents = CapLeft(r, u)
        /\ sc.remainingCapCents >= 0
        /\ (u.remainingCapCents # None /\ u.remainingCapCents[1] < 0)
             => /\ sc.boostCents = 0
                /\ sc.baseCents = sc.amountCents
                /\ \A i \in 1..Len(results) :
                     results[i].card = sc.card
                       => /\ results[i].baseValue = sc.amountCents * after * 100
                          /\ ResultOffers(i) = <<>> => results[i].bonusValue = 0

\* a negative supplied cap: nothing is boosted
C17_Witness ==
  \E k \in 1..Len(splitCalls) :
    LET u == UserRotatingOf(params.userRotating, splitCalls[k].card)
    IN  /\ u.remainingCapCents # None /\ u.remainingCapCents[1] < 0
        /\ splitCalls[k].amountCents > 0
        /\ splitCalls[k].remainingCapCents = 0
        /\ splitCalls[k].baseCents = splitCalls[k].amountCents

\* is the instant in the calendar window of rule r: from 00:00:00.000 of its
\* start day through 23:59:59 of its end day, a missing side being unbounded
CalendarInside(r, now) ==
  /\ r.start # None => now.day >= r.start[1]
  /\ r.end # None =>
       \/ now.day < r.end[1]
       \/ /\ now.day = r.end[1]
          /\ \/ now.sec < 86399
             \/ now.sec = 86399 /\ now.frac <= 0

\* C16: a rotating rule's window includes both calendar days: every instant
\* from 00:00:00.000 UTC of the start date through 23:59:59 UTC of the end
\* date, in the form with or without milliseconds, is inside, and a missing
\* start or end leaves that side open. So a rule that has the category, whose
\* calendar window holds now and before which no rule is matched, is the
\* rule in force.
C16_WindowInclusive ==
  \A i \in 1..Len(results) :
    (ResultCard(i).type = "cashback" /\ ResultCard(i).rotating_rules # None) =>
      LET card == ResultCard(i)
          rules == card.rotating_rules[1]
          u == UserRotatingOf(params.userRotating, card.id)
          notes == results[i].notes
      IN  \A k \in 1..Len(rules) :
            (/\ params.categoryId \in rules[k].category_ids
             /\ CalendarInside(rules[k], params.nowISO)
             /\ \A j \in 1..(k - 1) : j \notin MatchingRules(card))
              => /\ notes # <<>>
                 /\ IF rules[k].activation_required /\ ~u.activated
                    THEN notes[1].text = "Activation required for rotating bonus"
                    ELSE /\ notes[1].text = "Rotating % applied (cap remaining)"
                         /\ notes[1].n = RateOf(rules[k])

\* the cents-per-point (in hundredths of a cent) the resolution order gives
DocumentedCpp(card) ==
  IF card.program \in DOMAIN params.programOverrides
  THEN params.programOverrides[card.program]
  ELSE IF card.cpp_default # None THEN card.cpp_default[1]
  ELSE CASE card.program = "UR" -> 125
         [] card.program = "MR" -> 100
         [] card.program = "Cap1" -> 100
         [] card.program = "TYP" -> 100
         [] OTHER -> 100

\* C18: the cents-per-point of a card is programOverrides[card.program], else
\* the card's finite cpp_default, else the built-in value of its program
\* (UR 1.25, MR 1.0, Cap1 1.0, TYP 1.0), else 1.0; there is always a value.
C18_CppResolution ==
  \A i \in 1..Len(results) :
    ResultCard(i).type # "cashback" =>
      results[i].baseValue
        = params.amountCents * StaticRate(ResultCard(i)) * DocumentedCpp(ResultCard(i))

\* a card of a program the table knows, valued at its own cpp_default
C18_Witness ==
  \E i \in 1..Len(results) :
    /\ ResultCard(i).type # "cashback"
    /\ ResultCard(i).program = "UR" /\ ResultCard(i).cpp_default = Some(150)
    /\ "UR" \notin DOMAIN params.programOverrides
    /\ params.amountCents > 0
    /\ results[i].baseValue = params.amountCents * StaticRate(ResultCard(i)) * 150

\* the static multiplier as it is documented: a base of 0 is a multiplier of 0
DocumentedStatic(card) ==
  IF card.categories[params.categoryId] # None
  THEN card.categories[params.categoryId][1]
  ELSE IF card.base # None THEN card.base[1] ELSE 1

\* C19: the static multiplier of a card for a category is its entry in
\* categories when that is defined and finite (0 included), otherwise
\* card.base when defined (a base of 0 included), otherwise 1. Where no
\* rotating rule is in force the base value is earned at that multiplier.
C19_StaticMultiplier ==
  \A i \in 1..Len(results) :
    LET card == ResultCard(i)
    IN  /\ (card.type = "cashback" /\ MatchingRules(card) = {})
             => results[i].baseValue
                  = params.amountCents * DocumentedStatic(card) * 100
        /\ card.type # "cashback"
             => results[i].baseValue
                  = params.amountCents * DocumentedStatic(card) * DocumentedCpp(card)

\* the rotating rules and rotating states a points card is valued again with
OtherRotatingRules ==
  {None, Some(<<RotatingRules.open>>),
   Some(<<RotatingRules.q1, RotatingRules.open>>)}

OtherUserRotating(id) ==
  {<<>>, id :> [activated |-> TRUE, remainingCapCents |-> None],
         id :> [activated |-> TRUE, remainingCapCents |-> Some(0)]}

\* C20: for a points or miles card baseValue = amount * staticMult * cpp/100
\* and rotating rules play no part: whatever rotating_rules the card carries
\* and whatever userRotating holds the result is the same, without rotating
\* or activation note; a points and a miles card alike in all else are
\* valued alike.
C20_PointsIgnoreRotating ==
  \A i \in 1..Len(results) :
    ResultCard(i).type # "cashback" =>
      LET card == ResultCard(i)
          v == [dollars |-> results[i].dollars, baseValue |-> results[i].baseValue,
                bonusValue |-> results[i].bonusValue, notes |-> results[i].notes]
          other == IF card.type = "miles" THEN "points" ELSE "miles"
      IN  /\ v.baseValue = params.amountCents * StaticRate(card) * DocumentedCpp(card)
          /\ CountNotes(v.notes, "Rotating % applied (cap remaining)") = 0
          /\ CountNotes(v.notes, "Activation required for rotating bonus") = 0
          /\ \A rules \in OtherRotatingRules, rot \in OtherUserRotating(card.id) :
               valueFor([card EXCEPT !.rotating_rules = rules],
                        [params EXCEPT !.userRotating = rot], ResultOffers(i)) = v
          /\ valueFor([card EXCEPT !.type = other], params, ResultOffers(i)) = v

\* a miles card that carries a rule matching the purchase, with a rotating
\* state supplied for it
C20_Witness ==
  \E i \in 1..Len(results) :
    /\ ResultCard(i).type = "miles"
    /\ MatchingRules(ResultCard(i)) # {}
    /\ results[i].card \in DOMAIN params.userRotating
    /\ params.amountCents > 0
    /\ results[i].baseValue > 0 /\ results[i].notes = <<>>

\* the result of valuing the card of result i without its offer k
Without(i, k) == valueFor(ResultCard(i), params, RemoveAt(ResultOffers(i), k))

\* result i as valueFor returned it
Valued(i) ==
  [dollars |-> results[i].dollars, baseValue |-> results[i].baseValue,
   bonusValue |-> results[i].bonusValue, notes |-> results[i].notes]

\* C21: an offer counts only if it is live (start_at absent or <= now, end_at
\* absent or >= now, as the ISO strings compare), its card_scope is "all" or
\* lists the card, and its categories are empty or hold the category. An
\* offer failing one of these adds no value and no note, not even the
\* enrollment note, whatever its type and enrollment; an offer with empty
\* categories matches every category.
C21_FiltersFirst ==
  \A i \in 1..Len(results) :
    \A k \in 1..Len(ResultOffers(i)) :
      LET off == ResultOffers(i)[k]
      IN  /\ ~PassesFilters(off, ResultCard(i)) => Without(i, k) = Valued(i)
          /\ (/\ off.categories = {}
              /\ PassesFilters([off EXCEPT !.categories = {params.categoryId}],
                               ResultCard(i))
              /\ Enrolled(off)
              /\ off.offer_type = "percent_back" /\ off.value.percent # None
              /\ off.value.percent[1] > 0 /\ StatedCap(off) = None
              /\ params.amountCents > 0)
               => Contribution(i, k) = params.amountCents * off.value.percent[1] * 100

\* an offer that needs an enrollment the caller lacks and is not for the
\* category of the purchase: no enrollment note
C21_Witness ==
  \E i \in 1..Len(results) :
    \E k \in 1..Len(ResultOffers(i)) :
      /\ k \in Gated(i)
      /\ params.categoryId \notin ResultOffers(i)[k].categories
      /\ ResultOffers(i)[k].categories # {}
      /\ params.amountCents > 0
      /\ ~NotesInclude(results[i].notes, "Offer requires enrollment")

\* a statement credit that passes the filters and the enrollment gate
QualifyingCredit(i, k) ==
  LET off == ResultOffers(i)[k]
  IN  /\ off.offer_type = "statement_credit"
      /\ PassesFilters(off, ResultCard(i)) /\ Enrolled(off)

\* min_spend_cents, a missing one counting as 0
MinSpend(off) == IF off.min_spend_cents # None THEN off.min_spend_cents[1] ELSE 0

QualifyingPercent(i, k) ==
  LET off == ResultOffers(i)[k]
  IN  /\ PassesFilters(off, ResultCard(i)) /\ Enrolled(off)
      /\ off.value.percent # None /\ off.value.percent[1] > 0
      /\ \/ off.offer_type = "percent_back"
         \/ /\ off.offer_type = "statement_credit"
            /\ off.value.fixed_amount = None
            /\ params.amountCents >= MinSpend(off)

\* the raw percent value of offer k of result i
RawPercent(i, k) ==
  params.amountCents * ResultOffers(i)[k].value.percent[1] * 100

\* C23: for percent-based statement_credit and percent_back offers the cap is
\* max_back_cents whenever that field is non-null, also when it is 0 and
\* also when max_amount_cents is set as well; max_amount_cents is used only
\* when max_back_cents is null or absent.
C23_CapResolution ==
  \A i \in 1..Len(results) :
    \A k \in 1..Len(ResultOffers(i)) :
      (QualifyingPercent(i, k) /\ StatedCap(ResultOffers(i)[k]) # None)
        => Contribution(i, k)
             = Min(RawPercent(i, k), StatedCap(ResultOffers(i)[k])[1] * 10000)

\* is there one note of result i that is gone when offer k is left out
HasNote(i, k) ==
  \E j \in 1..Len(results[i].notes) :
    RemoveAt(results[i].notes, j) = Without(i, k).notes

\* that note
NoteOf(i, k) ==
  results[i].notes[CHOOSE j \in 1..Len(results[i].notes) :
                     RemoveAt(results[i].notes, j) = Without(i, k).notes]

\* C24 as stated: the note of a percent-based statement_credit or
\* percent_back offer has the capped form "{p}% back (capped at $X.XX)"
\* exactly when the cap limited the contribution (raw percent value above the
\* cap), and the plain form "{p}% back" otherwise.
C24_CappedNoteWhenLimited ==
  \A i \in 1..Len(results) :
    \A k \in 1..Len(ResultOffers(i)) :
      QualifyingPercent(i, k) =>
        /\ HasNote(i, k)
        /\ NoteOf(i, k).text \in {"% back (capped at)", "% back"}
        /\ NoteOf(i, k).text = "% back (capped at)"
             <=> /\ StatedCap(ResultOffers(i)[k]) # None
                 /\ RawPercent(i, k) > StatedCap(ResultOffers(i)[k])[1] * 10000

\* the caps an offer names, in cents
NamedCaps(off) ==
  {c[1] : c \in {off.value.max_back_cents, off.value.max_amount_cents} \ {None}}

\* C24 as amended: the note has the capped form "{p}% back (capped at
\* $X.XX)" exactly when a cap enters the contribution (contribution =
\* min(raw, X)), whether or not the cap is the smaller of the two, and the
\* plain form "{p}% back" when the contribution is the raw percent value; an
\* offer with a positive max_back_cents has the capped form with that cap,
\* an offer that names no cap the plain one.
C24_CappedNoteWhenCapped ==
  \A i \in 1..Len(results) :
    \A k \in 1..Len(ResultOffers(i)) :
      QualifyingPercent(i, k) =>
        LET off == ResultOffers(i)[k]
            n == NoteOf(i, k)
        IN  /\ HasNote(i, k)
            /\ n.n = off.value.percent[1]
            /\ \/ /\ n.text = "% back (capped at)"
                  /\ \E c \in NamedCaps(off) :
                       /\ n.money = Some(money(c * 10000))
                       /\ Contribution(i, k) = Min(RawPercent(i, k), c * 10000)
               \/ /\ n.text = "% back" /\ n.money = None
                  /\ Contribution(i, k) = RawPercent(i, k)
            /\ (off.value.max_back_cents # None /\ off.value.max_back_cents[1] > 0)
                 => /\ n.text = "% back (capped at)"
                    /\ n.money = Some(money(off.value.max_back_cents[1] * 10000))
            /\ NamedCaps(off) = {} => n.text = "% back"

\* a cap of $20.00 on a raw value of $2.00: the capped form of the note,
\* the contribution being the raw value
C24_Witness ==
  \E i \in 1..Len(results) :
    \E k \in 1..Len(ResultOffers(i)) :
      /\ QualifyingPercent(i, k)
      /\ StatedCap(ResultOffers(i)[k]) = Some(2000)
      /\ RawPercent(i, k) = 2000000
      /\ Contribution(i, k) = 2000000
      /\ NoteOf(i, k).text = "% back (capped at)"

\* C25: a qualifying points_multiplier offer with multiplier extraX adds
\* amount * extraX/100 dollars on a cashback card and amount * extraX *
\* cpp/100 dollars on a points or miles card, cpp being the cents-per-point
\* of the card's base earn (a programOverrides entry included), with the note
\* "+{extraX}x points".
C25_PointsMultiplier ==
  \A i \in 1..Len(results) :
    \A k \in 1..Len(ResultOffers(i)) :
      LET off == ResultOffers(i)[k]
          card == ResultCard(i)
      IN  (/\ off.offer_type = "points_multiplier"
           /\ off.value.points_multiplier # None
           /\ PassesFilters(off, card) /\ Enrolled(off))
            => LET extraX == off.value.points_multiplier[1]
               IN  /\ Contribution(i, k)
                        = IF card.type = "cashback"
                          THEN params.amountCents * extraX * 100
                          ELSE params.amountCents * extraX * DocumentedCpp(card)
                   /\ card.type # "cashback"
                        => Contribution(i, k) * StaticRate(card)
                             = results[i].baseValue * extraX
                   /\ HasNote(i, k)
                   /\ NoteOf(i, k) = Note("x points", extraX, None)

\* a +2x offer on a points card whose program is overridden to 2.00 cents
C25_Witness ==
  \E i \in 1..Len(results) :
    \E k \in 1..Len(ResultOffers(i)) :
      /\ ResultOffers(i)[k].offer_type = "points_multiplier"
      /\ PassesFilters(ResultOffers(i)[k], ResultCard(i))
      /\ ResultCard(i).type = "points"
      /\ ResultCard(i).program \in DOMAIN params.programOverrides
      /\ params.programOverrides[ResultCard(i).program] = 200
      /\ params.amountCents = 2000
      /\ Contribution(i, k) = 800000

\* the offer types the engine values
KnownTypes == {"statement_credit", "percent_back", "points_multiplier"}

\* C26 as stated: an offer whose offer_type is none of statement_credit,
\* percent_back, points_multiplier is silently ignored: for every card,
\* parameter set and enrollment state the result is the one of the same call
\* without that offer.
C26_UnknownTypeIgnored ==
  \A i \in 1..Len(results) :
    \A k \in 1..Len(ResultOffers(i)) :
      ResultOffers(i)[k].offer_type \notin KnownTypes => Without(i, k) = Valued(i)

\* the notes other than "Offer requires enrollment", in their order
OtherNotes(notes) == SelectSeq(notes, LAMBDA n : n.text # "Offer requires enrollment")

\* C26 as amended: an offer of an unknown offer_type adds no value: dollars,
\* baseValue and bonusValue are those of the call without it. The notes are
\* the same too, unless the offer passes the three filters and requires an
\* enrollment the caller lacks: then, as for any such offer, the one note
\* "Offer requires enrollment" is in the notes, and it is the only note that
\* leaving the offer out can take away or move: the other notes are the
\* same, in the same order.
C26_UnknownTypeNoValue ==
  \A i \in 1..Len(results) :
    \A k \in 1..Len(ResultOffers(i)) :
      LET off == ResultOffers(i)[k]
          w == Without(i, k)
      IN  off.offer_type \notin KnownTypes =>
            /\ w.dollars = results[i].dollars
            /\ w.baseValue = results[i].baseValue
            /\ w.bonusValue = results[i].bonusValue
            /\ IF PassesFilters(off, ResultCard(i)) /\ ~Enrolled(off)
               THEN /\ CountNotes(results[i].notes, "Offer requires enrollment") = 1
                    /\ CountNotes(w.notes, "Offer requires enrollment") <= 1
                    /\ OtherNotes(w.notes) = OtherNotes(results[i].notes)
               ELSE w.notes = results[i].notes

\* an offer of type rebate that needs enrollment: no value, and the
\* enrollment note
C26_Witness ==
  \E i \in 1..Len(results) :
    \E k \in 1..Len(ResultOffers(i)) :
      /\ ResultOffers(i)[k].offer_type = "rebate"
      /\ k \in Gated(i)
      /\ params.amountCents > 0
      /\ Without(i, k).notes # results[i].notes
      /\ Without(i, k).dollars = results[i].dollars

\* the texts of the note of the base earnings
BaseTexts ==
  {"Rotating % applied (cap remaining)", "Activation required for rotating bonus"}

\* 1 if result i starts with the note of a rotating rule, else 0
BaseNotes(i) ==
  IF results[i].notes # <<>> /\ results[i].notes[1].text \in BaseTexts THEN 1 ELSE 0

\* the texts a note of an offer of this type can have
NoteTexts(off) ==
  CASE off.offer_type = "statement_credit"
         -> {"statement credit", "% back", "% back (capped at)"}
    [] off.offer_type = "percent_back" -> {"% back", "% back (capped at)"}
    [] off.offer_type = "points_multiplier" -> {"x points"}
    [] OTHER -> {}

\* the j-th smallest element of a set of numbers
Nth(S, j) == CHOOSE k \in S : Cardinality({x \in S : x < k}) = j - 1

\* the rotating or activation note, when there is one, is the first note
BaseNoteFirst(i) ==
  \A j \in 2..Len(results[i].notes) : results[i].notes[j].text \notin BaseTexts

FirstGated(i, k) ==
  /\ k \in Gated(i) /\ PassesFilters(ResultOffers(i)[k], ResultCard(i))
  /\ \A j \in 1..(k - 1) :
       ~(j \in Gated(i) /\ PassesFilters(ResultOffers(i)[j], ResultCard(i)))

\* does offer k of result i reach a branch that values it
IsValued(i, k) ==
  LET off == ResultOffers(i)[k]
  IN  /\ PassesFilters(off, ResultCard(i)) /\ Enrolled(off)
      /\ \/ off.offer_type \in {"percent_back", "points_multiplier"}
         \/ /\ off.offer_type = "statement_credit"
            /\ params.amountCents >= MinSpend(off)
            /\ off.value.fixed_amount # None \/ off.value.percent # None

OtherKeys == {"discover_it", "capless"}

\* the userRotating maps that differ from the one of the call only in entries
\* of cards other than id
OtherEntries(id) ==
  LET own == IF id \in DOMAIN params.userRotating
             THEN id :> params.userRotating[id] ELSE <<>>
  IN  {own} \cup
      {own @@ (o :> [activated |-> TRUE, remainingCapCents |-> Some(0)]) :
         o \in OtherKeys \ {id}}

\* the offer maps that differ from the one of the call only in lists of
\* cards other than id
OtherOfferLists(id) ==
  LET own == IF id \in DOMAIN offersByCard THEN id :> offersByCard[id] ELSE <<>>
  IN  {own} \cup {own @@ (o :> <<"o_fixed", "o_two">>) : o \in OtherKeys \ {id}}

\* C28: in rankCards the dollars, baseValue, bonusValue and notes of a card
\* depend on that card, the shared params and offersByCard[card.id] only:
\* other wallet cards being added, removed or reordered, and entries of
\* offersByCard or userRotating under other card ids being changed, leave them
\* as they are.
C28_PerCardIndependence ==
  \A i \in 1..Len(results) :
    LET id == results[i].card
    IN  /\ \A rot \in OtherEntries(id) :
             valueFor(CardCatalog[id], [params EXCEPT !.userRotating = rot],
                      ResultOffers(i)) = Valued(i)
        /\ \A byCard \in OtherOfferLists(id) :
             valueFor(CardCatalog[id], params, OffersFor(byCard, id)) = Valued(i)

\* a ranked wallet of several cards in which the rotating state and the
\* offers of one card sit next to the result of another
C28_Witness ==
  /\ pc = "done" /\ Len(cards) >= 2 /\ Reordered
  /\ \E i, j \in 1..Len(results) :
       /\ i # j
       /\ results[j].card \in DOMAIN params.userRotating
       /\ results[i].card \notin DOMAIN params.userRotating
       /\ ResultOffers(j) # <<>> /\ ResultOffers(i) = <<>>
       /\ results[i].dollars > 0 /\ results[i].bonusValue = 0

\* C29: a cashback card whose rotating_rules is absent, not a list or empty
\* is valued at the static rate on the whole amount, without rotating or
\* activation note; a rule without a numeric rate boosts at 0%, a rule
\* without a numeric cap_cents has a cap of 0.
C29_MalformedRotatingRules ==
  \A i \in 1..Len(results) :
    LET card == ResultCard(i)
        notes == results[i].notes
        u == UserRotatingOf(params.userRotating, card.id)
    IN  card.type = "cashback" =>
          /\ card.rotating_rules \in {None, Some(<<>>)}
               => /\ results[i].baseValue = params.amountCents * StaticRate(card) * 100
                  /\ \A j \in 1..Len(notes) : notes[j].text \notin BaseTexts
                  /\ ResultOffers(i) = <<>> => results[i].bonusValue = 0
          /\ (/\ card.rotating_rules \notin {None, Some(<<>>)}
              /\ MatchingRules(card) # {}
              /\ ~(EarliestRule(card).activation_required /\ ~u.activated))
               => LET r == EarliestRule(card)
                  IN  /\ r.rate = None
                           => /\ notes[1] = Note("Rotating % applied (cap remaining)", 0,
                                                 notes[1].money)
                              /\ ResultOffers(i) = <<>> => results[i].bonusValue = 0
                      /\ (r.cap_cents = None /\ u.remainingCapCents = None)
                           => /\ notes[1].money = Some(money(0))
                              /\ results[i].baseValue
                                   = params.amountCents * StaticRate(card) * 100

\* a rule without a rate is in force on a purchase
C29_Witness ==
  \E i \in 1..Len(results) :
    /\ ResultCard(i).type = "cashback"
    /\ MatchingRules(ResultCard(i)) # {}
    /\ EarliestRule(ResultCard(i)).rate = None
    /\ params.amountCents = 2000
    /\ ResultOffers(i) = <<>>
    /\ results[i].dollars = 0
    /\ results[i].notes[1].n = 0

\* C30: whenever the main screen is shown (the wizard is not displayed, the
\* view is the recommendation view, the render has ranked the wallet) the
\* ranked list is not empty, so that the top recommendation
\* recommendations[0] exists, after any sequence of completing the wizard,
\* adding and removing wallet cards and re-running the wizard.
C30_TopRecommendationExists ==
  (~showOnboarding /\ currentView = "recommendation" /\ pc = "done")
    => Len(results) > 0
====
